---- MODULE Spec2Model ----
(***************************************************************************)
(* Loops component for Convex: the Contact Store with its namespace        *)
(* counter (TableAggregate keyed by userGroup), the append-only Operation  *)
(* Log, and the read-side queries computed from them (counting, rate       *)
(* limiting, spam detection, statistics).                                  *)
(***************************************************************************)
EXTENDS Integers, Sequences, FiniteSets, TLC

(***************************************************************************)
(* Bounds of the model                                                     *)
(***************************************************************************)
\* number of contact documents ever inserted (document ids 1..MaxIds)
MaxIds == 3
\* length of the Operation Log
MaxOps == 3
\* largest value of the clock (Date.now())
MaxTime == 2
\* largest timeWindowMs a query is called with
MaxWindow == 2
\* largest maxEmails / detector threshold a query is called with
MaxLimit == 2

\* an optional string argument or field that is absent
Undefined == "undefined"

Emails == {"a@x.com", "b@x.com"}
\* the emails contacts are stored under: one more than the scan cap
ContactEmails == Emails \cup {"c@x.com"}
UserGroups == {"premium", "free"}
Sources == {"web"}
OptUserGroups == UserGroups \cup {Undefined}
OptSources == Sources \cup {Undefined}
\* an optional boolean argument: absent, or one value
OptBooleans == {{}, {TRUE}, {FALSE}}

Min(x, y) == IF x <= y THEN x ELSE y
Max(x, y) == IF x >= y THEN x ELSE y

\* JavaScript's `a ?? b` for an optional boolean a
Coalesce(opt, default) == IF opt = {} THEN default ELSE CHOOSE x \in opt : TRUE

\* JavaScript truthiness of an optional string (`op.email &&`, `if (op.actorId)`)
Truthy(s) == s # Undefined /\ s # ""

\* the sum of f[x] over the elements x of S
RECURSIVE SumSet(_, _)
SumSet(S, f) ==
  IF S = {} THEN 0
  ELSE LET x == CHOOSE y \in S : TRUE IN f[x] + SumSet(S \ {x}, f)

\* db.query(...).take(n): the first n documents of an index range
Take(s, n) == SubSeq(s, 1, Min(n, Len(s)))

VARIABLES
  contacts,    \* the contacts table: a set of documents
  nextId,      \* the next document id (_id / _creationTime order)
  aggregate,   \* contactAggregate: entries (namespace, document id)
  ops,         \* the emailOperations table in creation order
  now,         \* the clock read by Date.now()
  sends,       \* sends issued by callers of the README pattern, with their actor
  backfill,    \* the caller driving backfillContactAggregate: its cursor and tally
  calls,       \* the action invocations that have returned or thrown, in order
  inflight     \* action invocations between their upstream call and their mutation

vars == <<contacts, nextId, aggregate, ops, now, sends, backfill, calls, inflight>>

(***************************************************************************)
(* contactAggregate (TableAggregate, namespace = doc.userGroup, key null)  *)
(***************************************************************************)
AggEntry(doc) == [namespace |-> doc.userGroup, id |-> doc._id]

\* insertIfDoesNotExist
aggregateInsert(agg, doc) ==
  IF AggEntry(doc) \in agg THEN agg ELSE agg \cup {AggEntry(doc)}

\* a delete that leaves the entry in place
aggregateDelete_NoOp(agg, doc) == agg

\* deleteIfExists
aggregateDelete(agg, doc) == agg \ {AggEntry(doc)}

\* a replace that forgets the entry of the old namespace
aggregateReplace_KeepsOld(agg, oldDoc, newDoc) ==
  agg \cup {AggEntry(newDoc)}

\* replaceOrInsert
aggregateReplace(agg, oldDoc, newDoc) ==
  (agg \ {AggEntry(oldDoc)}) \cup {AggEntry(newDoc)}

\* count(ctx, {namespace})
aggregateCountByUserGroup(agg, userGroup) ==
  Cardinality({e \in agg : e.namespace = userGroup})

iterNamespaces(agg) == {e.namespace : e \in agg}

aggregateCountTotal(agg) ==
  LET countOf == [namespace \in iterNamespaces(agg) |->
                    aggregateCountByUserGroup(agg, namespace)]
  IN SumSet(iterNamespaces(agg), countOf)

(***************************************************************************)
(* Contact Store mutations                                                 *)
(***************************************************************************)
\* .withIndex("email", q => q.eq("email", email)).unique()
ByEmail(email) == {c \in contacts : c.email = email}

\* a store that inserts without looking the email up
storeContact_AlwaysInserts(email, source, subscribed, userGroup) ==
  /\ nextId <= MaxIds
  /\ LET newDoc == [_id |-> nextId,
                    email |-> email,
                    source |-> source,
                    subscribed |-> Coalesce(subscribed, TRUE),
                    userGroup |-> userGroup]
     IN /\ contacts' = contacts \cup {newDoc}
        /\ aggregate' = aggregateInsert(aggregate, newDoc)
  /\ nextId' = nextId + 1
  /\ UNCHANGED <<ops, now, sends, backfill, calls>>

\* the fields no query reads (firstName, lastName, userId, loopsContactId,
\* createdAt, updatedAt) are left out of the documents
storeContact(email, source, subscribed, userGroup) ==
  /\ Cardinality(ByEmail(email)) <= 1
  /\ IF ByEmail(email) # {}
     THEN LET existing == CHOOSE c \in ByEmail(email) : TRUE
              updated == [existing EXCEPT
                            !.source = source,
                            !.subscribed = Coalesce(subscribed, existing.subscribed),
                            !.userGroup = userGroup]
          IN /\ contacts' = (contacts \ {existing}) \cup {updated}
             /\ aggregate' = IF existing.userGroup # updated.userGroup
                             THEN aggregateReplace(aggregate, existing, updated)
                             ELSE aggregate
             /\ nextId' = nextId
     ELSE /\ nextId <= MaxIds
          /\ LET newDoc == [_id |-> nextId,
                            email |-> email,
                            source |-> source,
                            subscribed |-> Coalesce(subscribed, TRUE),
                            userGroup |-> userGroup]
             IN /\ contacts' = contacts \cup {newDoc}
                /\ aggregate' = aggregateInsert(aggregate, newDoc)
          /\ nextId' = nextId + 1
  /\ UNCHANGED <<ops, now, sends, backfill, calls>>

\* a removal that also deletes the operations logged for the email
removeContact_PurgesLog(email) ==
  /\ Cardinality(ByEmail(email)) <= 1
  /\ IF ByEmail(email) # {}
     THEN LET existing == CHOOSE c \in ByEmail(email) : TRUE
          IN /\ aggregate' = aggregateDelete(aggregate, existing)
             /\ contacts' = contacts \ {existing}
     ELSE UNCHANGED <<contacts, aggregate>>
  /\ LET kept(op) == op.email # email IN ops' = SelectSeq(ops, kept)
  /\ UNCHANGED <<nextId, now, sends, backfill, calls>>

removeContact(email) ==
  /\ Cardinality(ByEmail(email)) <= 1
  /\ IF ByEmail(email) # {}
     THEN LET existing == CHOOSE c \in ByEmail(email) : TRUE
          IN /\ aggregate' = aggregateDelete(aggregate, existing)
             /\ contacts' = contacts \ {existing}
     ELSE UNCHANGED <<contacts, aggregate>>
  /\ UNCHANGED <<nextId, ops, now, sends, backfill, calls>>

(***************************************************************************)
(* countContacts                                                           *)
(***************************************************************************)
\* scaled from 8000 so that a scan can meet the cap
MAX_COUNT_LIMIT == 2

\* the documents of a set in _creationTime order
RECURSIVE InCreationOrder(_)
InCreationOrder(S) ==
  IF S = {} THEN <<>>
  ELSE LET first == CHOOSE c \in S : \A d \in S : c._id <= d._id
       IN <<first>> \o InCreationOrder(S \ {first})

\* a scan that reads its whole index range
countContacts_Unbounded(docs, agg, filter) ==
  LET keep(c) ==
        /\ ~(filter.userGroup # Undefined /\ c.userGroup # filter.userGroup)
        /\ ~(filter.source # Undefined /\ c.source # filter.source)
        /\ ~(filter.subscribed # {} /\ c.subscribed \notin filter.subscribed)
  IN IF filter.source = Undefined /\ filter.subscribed = {}
     THEN IF filter.userGroup = Undefined
          THEN aggregateCountTotal(agg)
          ELSE aggregateCountByUserGroup(agg, filter.userGroup)
     ELSE Cardinality({c \in docs : keep(c)})

\* filter: [userGroup, source : optional string, subscribed : optional boolean]
countContacts(docs, agg, filter) ==
  LET onlyUserGroupFilter == filter.source = Undefined /\ filter.subscribed = {}
      indexed ==
        IF filter.userGroup # Undefined
          THEN {c \in docs : c.userGroup = filter.userGroup}
        ELSE IF filter.source # Undefined
          THEN {c \in docs : c.source = filter.source}
        ELSE IF filter.subscribed # {}
          THEN {c \in docs : c.subscribed \in filter.subscribed}
        ELSE docs
      scanned == Take(InCreationOrder(indexed), MAX_COUNT_LIMIT)
      keep(c) ==
        /\ ~(filter.userGroup # Undefined /\ c.userGroup # filter.userGroup)
        /\ ~(filter.source # Undefined /\ c.source # filter.source)
        /\ ~(filter.subscribed # {} /\ c.subscribed \notin filter.subscribed)
      filtered == SelectSeq(scanned, keep)
  IN IF onlyUserGroupFilter
     THEN IF filter.userGroup = Undefined
          THEN aggregateCountTotal(agg)
          ELSE aggregateCountByUserGroup(agg, filter.userGroup)
     ELSE Len(filtered)

NoFilter == [userGroup |-> Undefined, source |-> Undefined, subscribed |-> {}]
GroupFilter(g) == [userGroup |-> g, source |-> Undefined, subscribed |-> {}]

(***************************************************************************)
(* Initial state and the Contact Store specification                       *)
(***************************************************************************)
\* args.cursor absent or null
NoCursor == 0

\* no call of backfillContactAggregate made yet
NoBackfill ==
  [cursor |-> NoCursor, isDone |-> FALSE, calls |-> 0, processed |-> 0,
   lastProcessed |-> 0, visited |-> <<>>, clear |-> FALSE, complete |-> FALSE,
   passes |-> 0]

Init ==
  /\ contacts = {}
  /\ nextId = 1
  /\ aggregate = {}
  /\ ops = <<>>
  /\ now = 0
  /\ sends = <<>>
  /\ backfill = NoBackfill
  /\ calls = <<>>
  /\ inflight = {}

StoreContact ==
  \E email \in ContactEmails, source \in OptSources, subscribed \in OptBooleans,
     userGroup \in OptUserGroups :
       storeContact(email, source, subscribed, userGroup) /\ UNCHANGED inflight

RemoveContact ==
  \E email \in ContactEmails : removeContact(email) /\ UNCHANGED inflight

NextContacts == StoreContact \/ RemoveContact

SpecContacts == Init /\ [][NextContacts]_vars

\* ground truth: a full scan of the Contact Store
LiveInGroup(g) == Cardinality({c \in contacts : c.userGroup = g})

\* C1: after any sequence of storeContact / removeContact from the empty
\* store, countContacts({}) is the number of live contacts, every
\* countContacts({userGroup: g}) is the number of live contacts of group g,
\* and the partition counts (the undefined partition included) sum to the total.
C1_CountsMatchStore ==
  /\ countContacts(contacts, aggregate, NoFilter) = Cardinality(contacts)
  /\ \A g \in UserGroups :
       countContacts(contacts, aggregate, GroupFilter(g)) = LiveInGroup(g)
  /\ \A g \in OptUserGroups : aggregateCountByUserGroup(aggregate, g) = LiveInGroup(g)
  /\ LET partitionCount == [g \in OptUserGroups |->
                               aggregateCountByUserGroup(aggregate, g)]
     IN SumSet(OptUserGroups, partitionCount)
          = countContacts(contacts, aggregate, NoFilter)

\* a contact was moved between groups, another deleted, and contacts remain
\* in a named group and in the undefined partition
C1_Witness ==
  /\ nextId > MaxIds
  /\ Cardinality(contacts) = 2
  /\ \E c \in contacts : c.userGroup = Undefined
  /\ \E c \in contacts : c.userGroup = "premium" /\ c._id = 1

\* the filters countContacts answers by a scan
ScanFilters ==
  {f \in [userGroup : OptUserGroups, source : OptSources, subscribed : OptBooleans] :
     f.source # Undefined \/ f.subscribed # {}}

\* ground truth: the contacts matching the whole filter
Matching(f) ==
  {c \in contacts :
     /\ f.userGroup # Undefined => c.userGroup = f.userGroup
     /\ f.source # Undefined => c.source = f.source
     /\ f.subscribed # {} => c.subscribed \in f.subscribed}

\* ground truth: the contacts of the index range the scan reads, the first
\* of userGroup, source, subscribed that the filter gives
IndexRange(f) ==
  IF f.userGroup # Undefined THEN {c \in contacts : c.userGroup = f.userGroup}
  ELSE IF f.source # Undefined THEN {c \in contacts : c.source = f.source}
  ELSE {c \in contacts : c.subscribed \in f.subscribed}

\* the first n contacts of a set in creation order
FirstCreated(S, n) == {c \in S : Cardinality({d \in S : d._id <= c._id}) <= n}

\* C13 (as stated): a scan count is never greater than the number of
\* contacts matching the whole filter, and is that number whenever at most
\* MAX_COUNT_LIMIT contacts match the whole filter.
C13_ExactUpToCap ==
  \A f \in ScanFilters :
    LET n == countContacts(contacts, aggregate, f)
    IN /\ n <= Cardinality(Matching(f))
       /\ Cardinality(Matching(f)) <= MAX_COUNT_LIMIT => n = Cardinality(Matching(f))

\* C13 (amended): a scan reads the first MAX_COUNT_LIMIT contacts of one
\* index range (userGroup if given, else source, else subscribed) and counts
\* those of them that match the whole filter: the count is at most
\* MAX_COUNT_LIMIT, never greater than the number of contacts matching the
\* whole filter, and is that number whenever the index range holds at most
\* MAX_COUNT_LIMIT contacts.
C13_ExactUpToCapOfIndexRange ==
  \A f \in ScanFilters :
    LET n == countContacts(contacts, aggregate, f)
        scanned == FirstCreated(IndexRange(f), MAX_COUNT_LIMIT)
    IN /\ Cardinality(scanned) <= MAX_COUNT_LIMIT
       /\ n = Cardinality(scanned \cap Matching(f))
       /\ n <= MAX_COUNT_LIMIT
       /\ n <= Cardinality(Matching(f))
       /\ Cardinality(IndexRange(f)) <= MAX_COUNT_LIMIT => n = Cardinality(Matching(f))

\* a group with more contacts than the cap whose last contact alone has the
\* source asked for: the scan stops before it, and a scan by source alone
\* counts it
C13_Witness ==
  \E g \in UserGroups, src \in Sources :
    /\ Cardinality({c \in contacts : c.userGroup = g}) > MAX_COUNT_LIMIT
    /\ countContacts(contacts, aggregate,
                     [userGroup |-> g, source |-> src, subscribed |-> {}]) = 0
    /\ countContacts(contacts, aggregate,
                     [userGroup |-> Undefined, source |-> src, subscribed |-> {}]) = 1

\* C30: in every state reached by storeContact and removeContact from the
\* empty store, every contact has a boolean subscribed flag, and for every
\* userGroup g holding at most MAX_COUNT_LIMIT contacts the count of the
\* counter path, countContacts({userGroup: g}), is the sum of the counts of
\* the scan path for subscribed: true and subscribed: false.
C30_CountingPathsAgree ==
  /\ \A c \in contacts : c.subscribed \in BOOLEAN
  /\ \A g \in UserGroups :
       Cardinality({c \in contacts : c.userGroup = g}) <= MAX_COUNT_LIMIT =>
         countContacts(contacts, aggregate, GroupFilter(g))
           = countContacts(contacts, aggregate,
                           [userGroup |-> g, source |-> Undefined,
                            subscribed |-> {TRUE}])
             + countContacts(contacts, aggregate,
                             [userGroup |-> g, source |-> Undefined,
                              subscribed |-> {FALSE}])

\* a userGroup at the cap with one subscribed and one unsubscribed contact,
\* after a third contact was removed
C30_Witness ==
  /\ nextId = MaxIds + 1
  /\ \E g \in UserGroups :
       /\ Cardinality({c \in contacts : c.userGroup = g}) = MAX_COUNT_LIMIT
       /\ \E c, d \in contacts :
            /\ c.userGroup = g /\ d.userGroup = g
            /\ c.subscribed /\ ~d.subscribed
       /\ countContacts(contacts, aggregate, GroupFilter(g)) = 2
  /\ Cardinality(contacts) = 2

(***************************************************************************)
(* Operation Log                                                           *)
(***************************************************************************)
Actors == {"u1", "u2"}
OptActors == Actors \cup {Undefined}
Windows == 0..MaxWindow
Limits == 0..MaxLimit

\* operationData: the document written for args at clock t; the fields no
\* query reads (transactionalId, campaignId, loopId, eventName, messageId,
\* metadata) are left out
EmailOperation(args, t) ==
  [operationType |-> args.operationType,
   email |-> args.email,
   timestamp |-> t,
   success |-> args.success,
   actorId |-> args.actorId]

\* ctx.db.insert("emailOperations", operationData)
Logged(log, args, t) == Append(log, EmailOperation(args, t))

\* args: [operationType, email, actorId, success]; the timestamp is the
\* clock at write time
logEmailOperation(args) ==
  /\ Len(ops) < MaxOps
  /\ ops' = Logged(ops, args, now)
  /\ UNCHANGED <<contacts, nextId, aggregate, now, backfill, inflight>>

\* time passes between two requests
Tick ==
  /\ \E t \in (now + 1)..MaxTime : now' = t
  /\ UNCHANGED <<contacts, nextId, aggregate, ops, sends, backfill, calls, inflight>>

(***************************************************************************)
(* Index ranges of emailOperations.  The table is in creation order and    *)
(* timestamps never decrease, so a subsequence of it is in index order.    *)
(***************************************************************************)
\* an index range that uses gt where the handler uses gte
emailIndex_Gt(log, email, cutoffTime) ==
  LET inRange(op) == op.email = email /\ op.timestamp > cutoffTime
  IN SelectSeq(log, inRange)

\* withIndex("email", q => q.eq("email", email).gte("timestamp", cutoffTime))
emailIndex(log, email, cutoffTime) ==
  LET inRange(op) == op.email = email /\ op.timestamp >= cutoffTime
  IN SelectSeq(log, inRange)

\* withIndex("actorId", q => q.eq("actorId", actorId).gte("timestamp", cutoffTime))
actorIdIndex(log, actorId, cutoffTime) ==
  LET inRange(op) == op.actorId = actorId /\ op.timestamp >= cutoffTime
  IN SelectSeq(log, inRange)

\* an index range without its lower bound
timestampIndex_NoCutoff(log, cutoffTime) == log

\* withIndex("timestamp", q => q.gte("timestamp", cutoffTime))
timestampIndex(log, cutoffTime) ==
  LET inRange(op) == op.timestamp >= cutoffTime
  IN SelectSeq(log, inRange)

(***************************************************************************)
(* Rate limiter                                                            *)
(***************************************************************************)
IsSuccess(op) == op.success

\* a reduce whose comparison is inverted, so that it keeps the newest
RECURSIVE ReduceOldest_Newest(_, _)
ReduceOldest_Newest(recentOps, n) ==
  IF n = 1 THEN recentOps[1]
  ELSE LET oldest == ReduceOldest_Newest(recentOps, n - 1)
           op == recentOps[n]
       IN IF op.timestamp > oldest.timestamp THEN op ELSE oldest

\* recentOps.reduce((oldest, op) => op.timestamp < oldest.timestamp ? op : oldest)
RECURSIVE ReduceOldest(_, _)
ReduceOldest(recentOps, n) ==
  IF n = 1 THEN recentOps[1]
  ELSE LET oldest == ReduceOldest(recentOps, n - 1)
           op == recentOps[n]
       IN IF op.timestamp < oldest.timestamp THEN op ELSE oldest

\* the handler body shared by the recipient and the actor check, from the
\* operations read; t is Date.now()
RateLimitResponse(operations, t, timeWindowMs, maxEmails) ==
  LET recentOps == SelectSeq(operations, IsSuccess)
      count == Len(recentOps)
      allowed == count < maxEmails
  IN IF ~allowed /\ Len(recentOps) > 0
     THEN LET oldestOp == ReduceOldest(recentOps, Len(recentOps))
              retryAfter == oldestOp.timestamp + timeWindowMs - t
          IN [allowed |-> allowed, count |-> count, limit |-> maxEmails,
              timeWindowMs |-> timeWindowMs,
              retryAfter |-> IF retryAfter < 0 THEN 0 ELSE retryAfter]
     ELSE \* retryAfter stays undefined
          [allowed |-> allowed, count |-> count, limit |-> maxEmails,
           timeWindowMs |-> timeWindowMs]

checkRecipientRateLimit(log, t, email, timeWindowMs, maxEmails) ==
  LET cutoffTime == t - timeWindowMs
      operations == Take(emailIndex(log, email, cutoffTime), maxEmails + 1)
  IN RateLimitResponse(operations, t, timeWindowMs, maxEmails)

checkActorRateLimit(log, t, actorId, timeWindowMs, maxEmails) ==
  LET cutoffTime == t - timeWindowMs
      operations == Take(actorIdIndex(log, actorId, cutoffTime), maxEmails + 1)
  IN RateLimitResponse(operations, t, timeWindowMs, maxEmails)

checkGlobalRateLimit(log, t, timeWindowMs, maxEmails) ==
  LET cutoffTime == t - timeWindowMs
      operations == Take(timestampIndex(log, cutoffTime), maxEmails + 1)
      recentOps == SelectSeq(operations, IsSuccess)
      count == Len(recentOps)
      allowed == count < maxEmails
  IN [allowed |-> allowed, count |-> count, limit |-> maxEmails,
      timeWindowMs |-> timeWindowMs]

(***************************************************************************)
(* The rate limiter specification: operations are logged and time passes   *)
(***************************************************************************)
\* the recipient and the actor of the operations logged: an actor sending to
\* one recipient, and sends without an actor to that recipient and to another
RateKeys ==
  {<<"a@x.com", "u1">>, <<"a@x.com", Undefined>>, <<"b@x.com", Undefined>>}

RateArgs ==
  {[operationType |-> "transactional", email |-> k[1], actorId |-> k[2],
    success |-> s] : k \in RateKeys, s \in BOOLEAN}

LogRate ==
  \E args \in RateArgs : logEmailOperation(args) /\ UNCHANGED <<sends, calls>>

NextRate == LogRate \/ Tick

SpecRate == Init /\ [][NextRate]_vars

(***************************************************************************)
(* Ground truth for the rate limiter: the Operation Log read as a set of   *)
(* positions.  A scope is the kind of check and its key.                   *)
(***************************************************************************)
KeyedScopes ==
  ({"recipient"} \X Emails) \cup ({"actor"} \X {"u1"})
Scopes == KeyedScopes \cup {<<"global", Undefined>>}

Check(scope, log, t, timeWindowMs, maxEmails) ==
  CASE scope[1] = "recipient" ->
         checkRecipientRateLimit(log, t, scope[2], timeWindowMs, maxEmails)
    [] scope[1] = "actor" ->
         checkActorRateLimit(log, t, scope[2], timeWindowMs, maxEmails)
    [] scope[1] = "global" ->
         checkGlobalRateLimit(log, t, timeWindowMs, maxEmails)

Matches(scope, op) ==
  CASE scope[1] = "recipient" -> op.email = scope[2]
    [] scope[1] = "actor" -> op.actorId = scope[2]
    [] scope[1] = "global" -> TRUE

\* positions of the operations of the scope inside the window ending at t
InWindow(scope, log, t, timeWindowMs) ==
  {i \in 1..Len(log) :
     Matches(scope, log[i]) /\ log[i].timestamp >= t - timeWindowMs}

SuccessfulInWindow(scope, log, t, timeWindowMs) ==
  {i \in InWindow(scope, log, t, timeWindowMs) : log[i].success}

\* the oldest n positions of a set of positions
OldestOf(P, n) == {i \in P : Cardinality({j \in P : j <= i}) <= n}

MinTimestamp(log, P) ==
  CHOOSE ts \in {log[i].timestamp : i \in P} :
    \A i \in P : ts <= log[i].timestamp

\* C2 (as stated), in the case the claim singles out, a window in which
\* every operation of the key is successful: the count of every check is the
\* number of successful operations of the key inside the window, whatever
\* maxEmails is.
C2_CountIsAllSuccessful ==
  \A scope \in Scopes, W \in Windows, M \in Limits :
    (InWindow(scope, ops, now, W) = SuccessfulInWindow(scope, ops, now, W))
      => Check(scope, ops, now, W, M).count
           = Cardinality(SuccessfulInWindow(scope, ops, now, W))

\* C2 (amended): the count of every check is the number of successful
\* operations among the oldest maxEmails + 1 operations of the key inside
\* the window, limit is maxEmails and allowed is count < maxEmails; so
\* maxEmails + 2 successful operations in the window give count maxEmails + 1.
C2_CountIsSuccessfulAmongRead ==
  \A scope \in Scopes, W \in Windows, M \in Limits :
    LET r == Check(scope, ops, now, W, M)
        read == OldestOf(InWindow(scope, ops, now, W), M + 1)
    IN /\ r.count = Cardinality({i \in read : ops[i].success})
       /\ r.limit = M
       /\ r.timeWindowMs = W
       /\ r.allowed = (r.count < M)

\* three successful operations for one email inside the window, checked with
\* maxEmails = 1: blocked with count 2
C2_Witness ==
  \E email \in Emails :
    /\ Cardinality(SuccessfulInWindow(<<"recipient", email>>, ops, now, 1)) = 3
    /\ Cardinality(InWindow(<<"recipient", email>>, ops, now, 1)) = 3
    /\ checkRecipientRateLimit(ops, now, email, 1, 1).count = 2
    /\ ~checkRecipientRateLimit(ops, now, email, 1, 1).allowed

\* C3: failed attempts never consume quota: every check gives the result it
\* gives on the log with the success:false operations removed.
C3_FailedNeverConsumeQuota ==
  \A scope \in Scopes, W \in Windows, M \in Limits :
    Check(scope, ops, now, W, M)
      = Check(scope, SelectSeq(ops, IsSuccess), now, W, M)

\* C4: when a successful operation of the key is appended inside the window
\* the count does not decrease, and allowed turns from true to false exactly
\* at the append that brings the successful in-window operations to maxEmails.
C4_SuccessfulAppend(scope) ==
  /\ Len(ops') = Len(ops) + 1
  /\ SubSeq(ops', 1, Len(ops)) = ops
  /\ now' = now
  /\ ops'[Len(ops')].success
  /\ Matches(scope, ops'[Len(ops')])

C4_Monotone ==
  [][\A scope \in Scopes, W \in Windows, M \in Limits :
       C4_SuccessfulAppend(scope) =>
         LET before == Check(scope, ops, now, W, M)
             after == Check(scope, ops', now', W, M)
         IN /\ after.count >= before.count
            /\ (before.allowed /\ ~after.allowed)
                 <=> (Cardinality(SuccessfulInWindow(scope, ops', now', W)) = M)
    ]_vars

\* C5: an operation older than now - timeWindowMs never contributes to a
\* check, a successful operation at exactly now - timeWindowMs (the first of
\* its index range) does, and the count never increases while time passes
\* and nothing is logged.
C5_ExpiredNeverCounts ==
  \A scope \in Scopes, W \in Windows, M \in Limits :
    LET inWindow(op) == op.timestamp >= now - W
        range == InWindow(scope, ops, now, W)
    IN /\ Check(scope, ops, now, W, M)
            = Check(scope, SelectSeq(ops, inWindow), now, W, M)
       /\ (\E i \in range :
              /\ \A j \in range : i <= j
              /\ ops[i].success
              /\ ops[i].timestamp = now - W)
            => Check(scope, ops, now, W, M).count >= 1

C5_WindowExpiry ==
  /\ []C5_ExpiredNeverCounts
  /\ [][(ops' = ops /\ now' > now) =>
          \A scope \in Scopes, W \in Windows, M \in Limits :
            Check(scope, ops', now', W, M).count
              <= Check(scope, ops, now, W, M).count
       ]_vars

\* C6 (as stated): a blocked recipient or actor check carries retryAfter =
\* max(0, oldest.timestamp + timeWindowMs - now), oldest being the oldest
\* successful in-window operation of the key, and an allowed check carries none.
C6_RetryAfterWhenBlocked ==
  \A scope \in KeyedScopes, W \in Windows, M \in Limits :
    LET r == Check(scope, ops, now, W, M)
        successful == SuccessfulInWindow(scope, ops, now, W)
    IN /\ ~r.allowed =>
            /\ "retryAfter" \in DOMAIN r
            /\ successful # {}
            /\ r.retryAfter = Max(0, MinTimestamp(ops, successful) + W - now)
            /\ r.retryAfter \in 0..W
       /\ r.allowed => "retryAfter" \notin DOMAIN r

\* C6 (amended): a blocked recipient or actor check with count > 0 carries
\* retryAfter = max(0, oldest.timestamp + timeWindowMs - now) in
\* 0..timeWindowMs; an allowed check, and a blocked check with count = 0
\* (maxEmails = 0 and no successful operation read), carries no retryAfter.
C6_RetryAfterWhenBlockedAndCounted ==
  \A scope \in KeyedScopes, W \in Windows, M \in Limits :
    LET r == Check(scope, ops, now, W, M)
        successful == SuccessfulInWindow(scope, ops, now, W)
    IN /\ (~r.allowed /\ r.count > 0) =>
            /\ "retryAfter" \in DOMAIN r
            /\ successful # {}
            /\ r.retryAfter = Max(0, MinTimestamp(ops, successful) + W - now)
            /\ r.retryAfter \in 0..W
       /\ (r.allowed \/ r.count = 0) => "retryAfter" \notin DOMAIN r

\* a blocked check whose oldest successful operation is neither the first
\* nor the last operation read, with a positive retryAfter
C6_Witness ==
  \E W \in Windows, M \in Limits :
    LET r == checkActorRateLimit(ops, now, "u1", W, M)
    IN /\ ~r.allowed
       /\ r.count = 2
       /\ "retryAfter" \in DOMAIN r
       /\ r.retryAfter = 1
       /\ \E i \in InWindow(<<"actor", "u1">>, ops, now, W) : ~ops[i].success

\* C7: when a recipient or actor check is blocked with retryAfter = r while
\* exactly maxEmails successful operations of the key are in the window, and
\* nothing is logged, the same check r later is allowed.
C7_RetryAfterIsSufficient ==
  [][\A scope \in KeyedScopes, W \in Windows, M \in Limits :
       LET r == Check(scope, ops, now, W, M)
       IN (/\ ops' = ops
           /\ ~r.allowed
           /\ "retryAfter" \in DOMAIN r
           /\ Cardinality(SuccessfulInWindow(scope, ops, now, W)) = M
           /\ now' = now + r.retryAfter)
            => Check(scope, ops', now', W, M).allowed
    ]_vars

\* C23: a check reads at most maxEmails + 1 operations, and that read is
\* enough: allowed is the verdict over all the successful operations of the
\* key in the window (fewer than maxEmails of them), and the retryAfter of a
\* blocked check is computed from the oldest of them.
C23_BoundedReadSuffices ==
  \A scope \in Scopes, W \in Windows, M \in Limits :
    LET r == Check(scope, ops, now, W, M)
        read == OldestOf(InWindow(scope, ops, now, W), M + 1)
        successful == SuccessfulInWindow(scope, ops, now, W)
    IN /\ Cardinality(read) <= M + 1
       /\ r.count = Cardinality({i \in read : ops[i].success})
       /\ r.allowed = (Cardinality(successful) < M)
       /\ "retryAfter" \in DOMAIN r =>
            r.retryAfter = Max(0, MinTimestamp(ops, successful) + W - now)

(***************************************************************************)
(* Sending: the component action, the client wrapper and the README's      *)
(* rate-limited pattern                                                    *)
(***************************************************************************)
\* the upstream call returns a response: ok, or an error status
Responses == {"ok", "error"}

\* or loopsFetch throws: fetch rejects on a transport error
Outcomes == Responses \cup {"thrown"}

\* the action's args are apiKey, transactionalId, email and dataVariables;
\* both branches log without an actorId, and nothing catches a throw of
\* loopsFetch
sendTransactional(args, response) ==
  IF response = "thrown"
  THEN UNCHANGED <<contacts, nextId, aggregate, ops, now, backfill, inflight>>
  ELSE logEmailOperation([operationType |-> "transactional",
                          email |-> args.email,
                          success |-> (response = "ok"),
                          actorId |-> Undefined])

\* the same shape, logged as "event"
sendEvent(args, response) ==
  IF response = "thrown"
  THEN UNCHANGED <<contacts, nextId, aggregate, ops, now, backfill, inflight>>
  ELSE logEmailOperation([operationType |-> "event",
                          email |-> args.email,
                          success |-> (response = "ok"),
                          actorId |-> Undefined])

\* runAction(sendEvent), which logs its own "event" operation unless
\* loopsFetch threw, then the "loop" operation: in the try block after a
\* success, in the catch block after sendEvent threw for either reason
triggerLoop(args, response) ==
  LET event == [operationType |-> "event", email |-> args.email,
                success |-> (response = "ok"), actorId |-> Undefined]
      loop == [operationType |-> "loop", email |-> args.email,
               success |-> (response = "ok"), actorId |-> Undefined]
      afterSendEvent == IF response = "thrown" THEN ops
                        ELSE Logged(ops, event, now)
  IN /\ Len(afterSendEvent) < MaxOps
     /\ ops' = Logged(afterSendEvent, loop, now)
     /\ UNCHANGED <<contacts, nextId, aggregate, now, backfill, inflight>>

\* Loops.sendTransactional: runAction(lib.sendTransactional, {apiKey, ...options})
LoopsSendTransactional(options, response) ==
  sendTransactional(options, response)

\* README: check the actor's rate limit, then send passing the actorId
sendTransactionalWithRateLimit(actorId, email, timeWindowMs, maxEmails, response) ==
  /\ checkActorRateLimit(ops, now, actorId, timeWindowMs, maxEmails).allowed
  /\ LoopsSendTransactional([email |-> email, actorId |-> actorId], response)
  /\ sends' = Append(sends, [actorId |-> actorId, email |-> email,
                             timestamp |-> now, success |-> (response = "ok")])
  /\ UNCHANGED calls

SendWithRateLimit ==
  \E actorId \in Actors, email \in Emails, W \in Windows, M \in Limits,
     response \in Responses :
       sendTransactionalWithRateLimit(actorId, email, W, M, response)

NextSend == SendWithRateLimit \/ Tick

SpecSend == Init /\ [][NextSend]_vars

\* successful sends an actor issued inside the window ending now
SentInWindow(actorId, timeWindowMs) ==
  {i \in 1..Len(sends) :
     /\ sends[i].actorId = actorId
     /\ sends[i].success
     /\ sends[i].timestamp >= now - timeWindowMs}

\* C8: for callers of the README pattern, every successful send issued with
\* an actorId is in the Operation Log under that actorId, so after maxEmails
\* successful sends of an actor inside the window the actor's check returns
\* allowed = false with count >= maxEmails.
C8_ActorSendsAreLimited ==
  /\ \A i \in 1..Len(sends) :
       sends[i].success =>
         \E j \in 1..Len(ops) :
           /\ ops[j].actorId = sends[i].actorId
           /\ ops[j].email = sends[i].email
           /\ ops[j].timestamp = sends[i].timestamp
           /\ ops[j].success
  /\ \A actorId \in Actors, W \in Windows, M \in Limits :
       Cardinality(SentInWindow(actorId, W)) >= M =>
         /\ ~checkActorRateLimit(ops, now, actorId, W, M).allowed
         /\ checkActorRateLimit(ops, now, actorId, W, M).count >= M

(***************************************************************************)
(* Spam detectors and statistics                                           *)
(***************************************************************************)
\* scaled from 8000 so that a window can hold more operations than the cap
MAX_SPAM_DETECTION_LIMIT == 2

OperationTypes == {"transactional", "event", "campaign", "loop"}

\* the email that stands for "no specific recipient"
Audience == "audience"

\* a Map<string, number> as its entries in insertion order
MapHas(map, key) == \E i \in 1..Len(map) : map[i].key = key

\* map.set(key, (map.get(key) ?? 0) + 1)
MapIncrement(map, key) ==
  IF MapHas(map, key)
  THEN [i \in 1..Len(map) |->
          IF map[i].key = key
          THEN [key |-> key, count |-> map[i].count + 1]
          ELSE map[i]]
  ELSE Append(map, [key |-> key, count |-> 1])

\* the counting loop over the first n keys
RECURSIVE CountKeys(_, _)
CountKeys(keys, n) ==
  IF n = 0 THEN <<>>
  ELSE MapIncrement(CountKeys(keys, n - 1), keys[n])

\* a test that lets the audience through: if (op.email)
HasRecipient_KeepsAudience(op) == Truthy(op.email)

\* if (op.email && op.email !== "audience")
HasRecipient(op) == Truthy(op.email) /\ op.email # Audience

\* if (op.actorId)
HasActor(op) == Truthy(op.actorId)

RecipientKeys(operations) ==
  LET counted == SelectSeq(operations, HasRecipient)
  IN [i \in 1..Len(counted) |-> counted[i].email]

ActorKeys(operations) ==
  LET counted == SelectSeq(operations, HasActor)
  IN [i \in 1..Len(counted) |-> counted[i].actorId]

\* a detector with a threshold test of >= where the handler has >
detectRecipientSpam_Gte(log, t, timeWindowMs, maxEmailsPerRecipient) ==
  LET cutoffTime == t - timeWindowMs
      operations == Take(timestampIndex(log, cutoffTime), MAX_SPAM_DETECTION_LIMIT)
      keys == RecipientKeys(operations)
      emailCounts == CountKeys(keys, Len(keys))
      over(entry) == entry.count >= maxEmailsPerRecipient
      suspicious == SelectSeq(emailCounts, over)
  IN [i \in 1..Len(suspicious) |->
        [email |-> suspicious[i].key, count |-> suspicious[i].count,
         timeWindowMs |-> timeWindowMs]]

detectRecipientSpam(log, t, timeWindowMs, maxEmailsPerRecipient) ==
  LET cutoffTime == t - timeWindowMs
      operations == Take(timestampIndex(log, cutoffTime), MAX_SPAM_DETECTION_LIMIT)
      keys == RecipientKeys(operations)
      emailCounts == CountKeys(keys, Len(keys))
      over(entry) == entry.count > maxEmailsPerRecipient
      suspicious == SelectSeq(emailCounts, over)
  IN [i \in 1..Len(suspicious) |->
        [email |-> suspicious[i].key, count |-> suspicious[i].count,
         timeWindowMs |-> timeWindowMs]]

detectActorSpam(log, t, timeWindowMs, maxEmailsPerActor) ==
  LET cutoffTime == t - timeWindowMs
      operations == Take(timestampIndex(log, cutoffTime), MAX_SPAM_DETECTION_LIMIT)
      keys == ActorKeys(operations)
      actorCounts == CountKeys(keys, Len(keys))
      over(entry) == entry.count > maxEmailsPerActor
      suspicious == SelectSeq(actorCounts, over)
  IN [i \in 1..Len(suspicious) |->
        [actorId |-> suspicious[i].key, count |-> suspicious[i].count,
         timeWindowMs |-> timeWindowMs]]

\* the values of a sequence
Range(seq) == {seq[i] : i \in 1..Len(seq)}

\* statistics whose recipient set keeps the "audience" email
getEmailStats_CountsAudience(log, t, timeWindowMs) ==
  LET cutoffTime == t - timeWindowMs
      operations == Take(timestampIndex(log, cutoffTime), MAX_SPAM_DETECTION_LIMIT)
      IsFailure(op) == ~op.success
      types == [i \in 1..Len(operations) |-> operations[i].operationType]
      byType == CountKeys(types, Len(types))
      emails == [i \in 1..Len(operations) |-> operations[i].email]
  IN [totalOperations |-> Len(operations),
      successfulOperations |-> Len(SelectSeq(operations, IsSuccess)),
      failedOperations |-> Len(SelectSeq(operations, IsFailure)),
      operationsByType |->
        [type \in {byType[i].key : i \in 1..Len(byType)} |->
           (CHOOSE entry \in Range(byType) : entry.key = type).count],
      uniqueRecipients |-> Cardinality(Range(emails)),
      uniqueActors |-> Cardinality(Range(ActorKeys(operations)))]

getEmailStats(log, t, timeWindowMs) ==
  LET cutoffTime == t - timeWindowMs
      operations == Take(timestampIndex(log, cutoffTime), MAX_SPAM_DETECTION_LIMIT)
      IsFailure(op) == ~op.success
      types == [i \in 1..Len(operations) |-> operations[i].operationType]
      byType == CountKeys(types, Len(types))
  IN [totalOperations |-> Len(operations),
      successfulOperations |-> Len(SelectSeq(operations, IsSuccess)),
      failedOperations |-> Len(SelectSeq(operations, IsFailure)),
      operationsByType |->
        [type \in {byType[i].key : i \in 1..Len(byType)} |->
           (CHOOSE entry \in Range(byType) : entry.key = type).count],
      uniqueRecipients |-> Cardinality(Range(RecipientKeys(operations))),
      uniqueActors |-> Cardinality(Range(ActorKeys(operations)))]

\* [...operations].sort((a, b) => a.timestamp - b.timestamp): a stable sort,
\* by insertion of the n-th operation after the operations not newer than it
RECURSIVE SortByTimestamp(_, _)
SortByTimestamp(operations, n) ==
  IF n = 0 THEN <<>>
  ELSE LET sorted == SortByTimestamp(operations, n - 1)
           op == operations[n]
           notNewer(o) == o.timestamp <= op.timestamp
           newer(o) == o.timestamp > op.timestamp
       IN SelectSeq(sorted, notNewer) \o <<op>> \o SelectSeq(sorted, newer)

\* the concatenation of the first n sequences of a sequence of sequences
RECURSIVE Flatten(_, _)
Flatten(seqs, n) ==
  IF n = 0 THEN <<>> ELSE Flatten(seqs, n - 1) \o seqs[n]

\* the keys of a Map in insertion order
MapKeys(keys) ==
  LET map == CountKeys(keys, Len(keys))
  IN [i \in 1..Len(map) |-> map[i].key]

\* an inner loop whose window leaves out its end, timestamp + timeWindowMs
GroupPatterns_HalfOpen(group, field, key, timeWindowMs, minEmailsInWindow) ==
  LET candidate(i) ==
        LET windowStart == group[i].timestamp
            windowEnd == windowStart + timeWindowMs
            inWindow(op) == op.timestamp >= windowStart /\ op.timestamp < windowEnd
            opsInWindow == SelectSeq(group, inWindow)
        IN IF field = "email"
           THEN [email |-> key, count |-> Len(opsInWindow),
                 timeWindowMs |-> timeWindowMs,
                 firstTimestamp |-> windowStart, lastTimestamp |-> windowEnd]
           ELSE [actorId |-> key, count |-> Len(opsInWindow),
                 timeWindowMs |-> timeWindowMs,
                 firstTimestamp |-> windowStart, lastTimestamp |-> windowEnd]
      candidates == [i \in 1..Len(group) |-> candidate(i)]
      enough(pattern) == pattern.count >= minEmailsInWindow
  IN SelectSeq(candidates, enough)

\* the inner loop over one group: a pattern for every operation of the group
\* whose window [timestamp, timestamp + timeWindowMs] holds enough operations
GroupPatterns(group, field, key, timeWindowMs, minEmailsInWindow) ==
  LET candidate(i) ==
        LET windowStart == group[i].timestamp
            windowEnd == windowStart + timeWindowMs
            inWindow(op) == op.timestamp >= windowStart /\ op.timestamp <= windowEnd
            opsInWindow == SelectSeq(group, inWindow)
        IN IF field = "email"
           THEN [email |-> key, count |-> Len(opsInWindow),
                 timeWindowMs |-> timeWindowMs,
                 firstTimestamp |-> windowStart, lastTimestamp |-> windowEnd]
           ELSE [actorId |-> key, count |-> Len(opsInWindow),
                 timeWindowMs |-> timeWindowMs,
                 firstTimestamp |-> windowStart, lastTimestamp |-> windowEnd]
      candidates == [i \in 1..Len(group) |-> candidate(i)]
      enough(pattern) == pattern.count >= minEmailsInWindow
  IN SelectSeq(candidates, enough)

\* the value of an expression, from the set that holds only it
The(S) == CHOOSE x \in S : TRUE

\* the patterns of the sorted operations, email groups before actor groups
PatternsOf(sortedOps, timeWindowMs, minEmailsInWindow) ==
  LET emails == MapKeys(RecipientKeys(sortedOps))
      actors == MapKeys(ActorKeys(sortedOps))
      emailGroup(email) ==
        LET inGroup(op) == HasRecipient(op) /\ op.email = email
        IN SelectSeq(sortedOps, inGroup)
      actorGroup(actorId) ==
        LET inGroup(op) == HasActor(op) /\ op.actorId = actorId
        IN SelectSeq(sortedOps, inGroup)
      emailPatterns ==
        [i \in 1..Len(emails) |->
           The({GroupPatterns(group, "email", emails[i],
                              timeWindowMs, minEmailsInWindow) :
                  group \in {emailGroup(emails[i])}})]
      actorPatterns ==
        [i \in 1..Len(actors) |->
           The({GroupPatterns(group, "actorId", actors[i],
                              timeWindowMs, minEmailsInWindow) :
                  group \in {actorGroup(actors[i])}})]
  IN Flatten(emailPatterns, Len(emailPatterns))
       \o Flatten(actorPatterns, Len(actorPatterns))

\* the patterns of the operations handed over
RapidFirePatterns(operations, timeWindowMs, minEmailsInWindow) ==
  The({PatternsOf(sortedOps, timeWindowMs, minEmailsInWindow) :
         sortedOps \in {SortByTimestamp(operations, Len(operations))}})

\* a detector that reads the whole index range
detectRapidFirePatterns_Unbounded(log, t, timeWindowMs, minEmailsInWindow) ==
  LET cutoffTime == t - timeWindowMs
      operations == timestampIndex(log, cutoffTime)
  IN RapidFirePatterns(operations, timeWindowMs, minEmailsInWindow)

detectRapidFirePatterns(log, t, timeWindowMs, minEmailsInWindow) ==
  LET cutoffTime == t - timeWindowMs
  IN The({RapidFirePatterns(operations, timeWindowMs, minEmailsInWindow) :
            operations \in {Take(timestampIndex(log, cutoffTime),
                                 MAX_SPAM_DETECTION_LIMIT)}})

(***************************************************************************)
(* The analytics specification: operations of every type are logged, to    *)
(* recipients and to the audience, with and without an actor               *)
(***************************************************************************)
StatsArgs ==
  {[operationType |-> "transactional", email |-> "a@x.com",
    actorId |-> Undefined, success |-> TRUE],
   [operationType |-> "transactional", email |-> "a@x.com",
    actorId |-> "u1", success |-> FALSE],
   [operationType |-> "event", email |-> "b@x.com",
    actorId |-> "u1", success |-> TRUE],
   [operationType |-> "event", email |-> "a@x.com",
    actorId |-> "u2", success |-> TRUE],
   [operationType |-> "campaign", email |-> Audience,
    actorId |-> "u2", success |-> TRUE],
   [operationType |-> "loop", email |-> "b@x.com",
    actorId |-> Undefined, success |-> FALSE]}

LogStats ==
  \E args \in StatsArgs : logEmailOperation(args) /\ UNCHANGED <<sends, calls>>

NextStats == LogStats \/ Tick

SpecStats == Init /\ [][NextStats]_vars

\* positions of the operations inside the window ending at t
WindowOps(log, t, timeWindowMs) ==
  {i \in 1..Len(log) : log[i].timestamp >= t - timeWindowMs}

\* positions of the operations a detector or getEmailStats reads
ReadOps(log, t, timeWindowMs) ==
  OldestOf(WindowOps(log, t, timeWindowMs), MAX_SPAM_DETECTION_LIMIT)

\* the boundary of a detector for one key: n operations of the key, the
\* entries of the key in the output
Boundary(n, m, hits, out, W) ==
  /\ n = m => hits = {}
  /\ n = m + 1 =>
       /\ Cardinality(hits) = 1
       /\ \A i \in hits : out[i].count = m + 1 /\ out[i].timeWindowMs = W

\* C9 (as stated): an email with exactly m operations (successful or failed)
\* in the window is not in the detectRecipientSpam output, and one with m + 1
\* is in it exactly once with count m + 1 and the requested timeWindowMs; the
\* same for actors and detectActorSpam.
C9_ThresholdBoundary ==
  \A W \in Windows, m \in Limits :
    /\ \A email \in Emails :
         LET out == detectRecipientSpam(ops, now, W, m)
         IN Boundary(Cardinality({i \in WindowOps(ops, now, W) : ops[i].email = email}),
                     m, {i \in 1..Len(out) : out[i].email = email}, out, W)
    /\ \A actorId \in Actors :
         LET out == detectActorSpam(ops, now, W, m)
         IN Boundary(Cardinality({i \in WindowOps(ops, now, W) : ops[i].actorId = actorId}),
                     m, {i \in 1..Len(out) : out[i].actorId = actorId}, out, W)

\* C9 (amended): the same boundary over the operations the detector reads,
\* the oldest MAX_SPAM_DETECTION_LIMIT operations of the window: an email
\* (actor) with exactly m operations among them is not in the output, one
\* with m + 1 is in it exactly once with count m + 1 and the requested
\* timeWindowMs.
C9_ThresholdBoundaryAmongRead ==
  \A W \in Windows, m \in Limits :
    /\ \A email \in Emails :
         LET out == detectRecipientSpam(ops, now, W, m)
         IN Boundary(Cardinality({i \in ReadOps(ops, now, W) : ops[i].email = email}),
                     m, {i \in 1..Len(out) : out[i].email = email}, out, W)
    /\ \A actorId \in Actors :
         LET out == detectActorSpam(ops, now, W, m)
         IN Boundary(Cardinality({i \in ReadOps(ops, now, W) : ops[i].actorId = actorId}),
                     m, {i \in 1..Len(out) : out[i].actorId = actorId}, out, W)

\* with threshold 1, one email is reported with count 2 while another email
\* with one failed operation in the window is not, and an actor is reported
C9_Witness ==
  \E W \in Windows :
    /\ \E i \in 1..Len(detectRecipientSpam(ops, now, W, 1)) :
         detectRecipientSpam(ops, now, W, 1)[i].count = 2
    /\ \E i \in ReadOps(ops, now, W) : ~ops[i].success
    /\ detectRecipientSpam(ops, now, W, 2) = <<>>
    /\ Len(detectActorSpam(ops, now, W, 0)) = 2
    /\ Len(ops) > Cardinality(WindowOps(ops, now, W))

\* C10: over the operations read, totalOperations = successfulOperations +
\* failedOperations, operationsByType holds for each type read the number of
\* operations of the type and sums to totalOperations, uniqueRecipients is
\* the number of distinct emails other than "audience", uniqueActors the
\* number of distinct actorIds; with nothing in the window every count is 0
\* and operationsByType is empty.
C10_StatsOverRead ==
  \A W \in Windows :
    LET stats == getEmailStats(ops, now, W)
        read == ReadOps(ops, now, W)
        byType == stats.operationsByType
    IN /\ stats.totalOperations = Cardinality(read)
       /\ stats.successfulOperations = Cardinality({i \in read : ops[i].success})
       /\ stats.failedOperations = Cardinality({i \in read : ~ops[i].success})
       /\ stats.totalOperations
            = stats.successfulOperations + stats.failedOperations
       /\ DOMAIN byType = {ops[i].operationType : i \in read}
       /\ \A type \in DOMAIN byType :
            byType[type] = Cardinality({i \in read : ops[i].operationType = type})
       /\ SumSet(DOMAIN byType, byType) = stats.totalOperations
       /\ stats.uniqueRecipients
            = Cardinality({ops[i].email : i \in read} \ {Audience})
       /\ stats.uniqueActors
            = Cardinality({ops[i].actorId : i \in read} \ {Undefined})
       /\ WindowOps(ops, now, W) = {} =>
            /\ stats.totalOperations = 0
            /\ stats.successfulOperations = 0
            /\ stats.failedOperations = 0
            /\ stats.uniqueRecipients = 0
            /\ stats.uniqueActors = 0
            /\ DOMAIN byType = {}

\* statistics over a campaign to the audience and a failed send of an actor
\* to a recipient, with an older operation outside the window
C10_Witness ==
  \E W \in Windows :
    LET stats == getEmailStats(ops, now, W)
    IN /\ stats.totalOperations = 2
       /\ stats.successfulOperations = 1
       /\ stats.failedOperations = 1
       /\ DOMAIN stats.operationsByType = {"campaign", "transactional"}
       /\ stats.uniqueRecipients = 1
       /\ stats.uniqueActors = 2
       /\ Len(ops) > Cardinality(WindowOps(ops, now, W))

\* the truncation specification: the log grows past the cap with operations
\* of two recipients and the audience, of two actors, successful and failed
TruncationArgs ==
  {[operationType |-> "transactional", email |-> "a@x.com",
    actorId |-> "u1", success |-> FALSE],
   [operationType |-> "event", email |-> "b@x.com",
    actorId |-> "u1", success |-> TRUE],
   [operationType |-> "campaign", email |-> Audience,
    actorId |-> "u2", success |-> TRUE]}

LogTruncation ==
  \E args \in TruncationArgs : logEmailOperation(args) /\ UNCHANGED <<sends, calls>>

NextTruncation == LogTruncation \/ Tick

SpecTruncation == Init /\ [][NextTruncation]_vars

\* the operations at a set of positions of the log, in log order
RECURSIVE SubLog(_, _)
SubLog(log, P) ==
  IF P = {} THEN <<>>
  ELSE LET last == CHOOSE i \in P : \A j \in P : j <= i
       IN Append(SubLog(log, P \ {last}), log[last])

\* the newest n positions of a set of positions
NewestOf(P, n) == {i \in P : Cardinality({j \in P : j >= i}) <= n}

\* the four analytics outputs for one window and one threshold
Analytics(log, t, W, m) ==
  [recipientSpam |-> detectRecipientSpam(log, t, W, m),
   actorSpam |-> detectActorSpam(log, t, W, m),
   rapidFire |-> detectRapidFirePatterns(log, t, W, m),
   stats |-> getEmailStats(log, t, W)]

\* every count an analytics output reports
ReportedCounts(a) ==
  {a.recipientSpam[i].count : i \in 1..Len(a.recipientSpam)}
    \cup {a.actorSpam[i].count : i \in 1..Len(a.actorSpam)}
    \cup {a.rapidFire[i].count : i \in 1..Len(a.rapidFire)}
    \cup {a.stats.totalOperations, a.stats.successfulOperations,
          a.stats.failedOperations, a.stats.uniqueRecipients,
          a.stats.uniqueActors}
    \cup {a.stats.operationsByType[type] : type \in DOMAIN a.stats.operationsByType}

\* C11: whatever the log holds, detectRecipientSpam, detectActorSpam,
\* detectRapidFirePatterns and getEmailStats read at most
\* MAX_SPAM_DETECTION_LIMIT operations, their output is the output computed
\* from the operations read alone, and no count they report (totalOperations
\* included) exceeds the cap, also with more operations in the window.
C11_TruncatedToCap ==
  \A W \in Windows :
    \A read \in {ReadOps(ops, now, W)} :
      \A readLog \in {SubLog(ops, read)} :
        /\ Cardinality(read) <= MAX_SPAM_DETECTION_LIMIT
        /\ \A m \in Limits :
             \A a \in {Analytics(ops, now, W, m)} :
               /\ a = Analytics(readLog, now, W, m)
               /\ a.stats.totalOperations = Cardinality(read)
               /\ \A count \in ReportedCounts(a) :
                    count <= MAX_SPAM_DETECTION_LIMIT

\* more operations in the window than the cap: totalOperations is the cap and
\* a rapid-fire pattern is reported with the cap as its count
C11_Witness ==
  \E W \in Windows :
    /\ Cardinality(WindowOps(ops, now, W)) > MAX_SPAM_DETECTION_LIMIT
    /\ getEmailStats(ops, now, W).totalOperations = MAX_SPAM_DETECTION_LIMIT
    /\ \E i \in 1..Len(detectRapidFirePatterns(ops, now, W, 1)) :
         detectRapidFirePatterns(ops, now, W, 1)[i].count = MAX_SPAM_DETECTION_LIMIT

\* C12: with more operations in the window than the cap, the operations
\* analysed are the newest MAX_SPAM_DETECTION_LIMIT of the window, so every
\* output is the output computed from those alone and the operation logged
\* last is among the operations read.
C12_MostRecentAnalysed ==
  \A W \in Windows, m \in Limits :
    LET window == WindowOps(ops, now, W)
        newest == NewestOf(window, MAX_SPAM_DETECTION_LIMIT)
    IN /\ Analytics(ops, now, W, m) = Analytics(SubLog(ops, newest), now, W, m)
       /\ window # {} => Len(ops) \in ReadOps(ops, now, W)

(***************************************************************************)
(* The detector specification: operations to two recipients and to the     *)
(* audience, of two actors and of none, while time passes                  *)
(***************************************************************************)
PatternArgs ==
  {[operationType |-> "transactional", email |-> "a@x.com",
    actorId |-> Undefined, success |-> TRUE],
   [operationType |-> "transactional", email |-> "a@x.com",
    actorId |-> "u1", success |-> FALSE],
   [operationType |-> "event", email |-> "b@x.com",
    actorId |-> "u1", success |-> TRUE],
   [operationType |-> "campaign", email |-> Audience,
    actorId |-> "u2", success |-> TRUE]}

LogPattern ==
  \E args \in PatternArgs : logEmailOperation(args) /\ UNCHANGED <<sends, calls>>

NextPatterns == LogPattern \/ Tick

SpecPatterns == Init /\ [][NextPatterns]_vars

\* positions, among the operations read, of the operations of a group
GroupOf(read, field, key) == {i \in read : ops[i][field] = key}

\* positions of the group's operations in [ops[i].timestamp, ... + W]
Burst(group, i, W) ==
  {j \in group : /\ ops[j].timestamp >= ops[i].timestamp
                  /\ ops[j].timestamp <= ops[i].timestamp + W}

\* the record of the anchor i of a group
PatternOf(group, field, key, i, W) ==
  IF field = "email"
  THEN [email |-> key, count |-> Cardinality(Burst(group, i, W)),
        timeWindowMs |-> W, firstTimestamp |-> ops[i].timestamp,
        lastTimestamp |-> ops[i].timestamp + W]
  ELSE [actorId |-> key, count |-> Cardinality(Burst(group, i, W)),
        timeWindowMs |-> W, firstTimestamp |-> ops[i].timestamp,
        lastTimestamp |-> ops[i].timestamp + W]

\* the groups: every email but the audience, every actorId
Groups == ({"email"} \X Emails) \cup ({"actorId"} \X Actors)

\* C24: for each email group and each actorId group of the operations read,
\* the output holds one record per operation of the group whose window
\* [timestamp, timestamp + timeWindowMs] holds at least minEmailsInWindow
\* operations of the group, with that number as count, firstTimestamp the
\* timestamp and lastTimestamp = timestamp + timeWindowMs; it holds nothing
\* else, and nothing for a group of fewer than minEmailsInWindow operations.
C24_OneRecordPerAnchor ==
  \A W \in Windows, m \in Limits :
    LET out == detectRapidFirePatterns(ops, now, W, m)
        read == ReadOps(ops, now, W)
    IN /\ \A g \in Groups :
            LET group == GroupOf(read, g[1], g[2])
            IN /\ \A i \in group :
                    LET pattern == PatternOf(group, g[1], g[2], i, W)
                    IN Cardinality({k \in 1..Len(out) : out[k] = pattern})
                         = IF pattern.count >= m
                           THEN Cardinality({j \in group :
                                               ops[j].timestamp = ops[i].timestamp})
                           ELSE 0
               /\ Cardinality(group) < m =>
                    \A k \in 1..Len(out) :
                      g[1] \in DOMAIN out[k] => out[k][g[1]] # g[2]
       /\ \A k \in 1..Len(out) :
            \E g \in Groups :
              \E i \in GroupOf(read, g[1], g[2]) :
                out[k] = PatternOf(GroupOf(read, g[1], g[2]), g[1], g[2], i, W)

\* one burst of two operations of an actor to one recipient: the recipient's
\* group gives two overlapping records, of counts 2 and 1, and so does the
\* actor's group
C24_Witness ==
  LET out == detectRapidFirePatterns(ops, now, 1, 1)
  IN /\ Len(out) = 4
     /\ \E k, l \in 1..Len(out) :
          /\ "email" \in DOMAIN out[k] /\ "email" \in DOMAIN out[l]
          /\ out[k].email = out[l].email
          /\ out[k].count = 2 /\ out[l].count = 1
          /\ out[k].lastTimestamp = out[l].firstTimestamp
     /\ \E k \in 1..Len(out) : "actorId" \in DOMAIN out[k] /\ out[k].count = 2

\* C25: every record of detectRecipientSpam is for an email other than the
\* audience, with the number of operations read for the email, successful
\* or failed, as its count; every record of detectActorSpam is for an
\* actorId, with the number of operations read that carry it as its count,
\* so an operation without actorId adds to no count; and no email or actorId
\* is reported twice.
C25_DetectorGrouping ==
  \A W \in Windows, m \in Limits :
    LET read == ReadOps(ops, now, W)
        byEmail == detectRecipientSpam(ops, now, W, m)
        byActor == detectActorSpam(ops, now, W, m)
    IN /\ \A k \in 1..Len(byEmail) :
            /\ byEmail[k].email \in Emails
            /\ byEmail[k].count
                 = Cardinality({i \in read : ops[i].email = byEmail[k].email})
            /\ \A l \in 1..Len(byEmail) :
                 byEmail[l].email = byEmail[k].email => l = k
       /\ \A k \in 1..Len(byActor) :
            /\ byActor[k].actorId \in Actors
            /\ byActor[k].count
                 = Cardinality({i \in read : ops[i].actorId = byActor[k].actorId})
            /\ \A l \in 1..Len(byActor) :
                 byActor[l].actorId = byActor[k].actorId => l = k
       /\ Len(byEmail)
            = Cardinality({e \in Emails :
                             Cardinality({i \in read : ops[i].email = e}) > m})
       /\ Len(byActor)
            = Cardinality({a \in Actors :
                             Cardinality({i \in read : ops[i].actorId = a}) > m})

\* an operation to the audience and a failed one to a recipient are read:
\* only the recipient is reported, with the failed operation as its count,
\* and both actors are; in the shorter window the failed operation of an
\* actor and a successful one without actor, to one recipient, are read:
\* the recipient is reported with count 2 and the actor with count 1
C25_Witness ==
  /\ now = 1
  /\ \E i, j \in ReadOps(ops, now, 1) :
       /\ ops[i].email = Audience
       /\ ops[j].email # Audience /\ ~ops[j].success
  /\ Len(detectRecipientSpam(ops, now, 1, 0)) = 1
  /\ detectRecipientSpam(ops, now, 1, 0)[1].count = 1
  /\ Len(detectActorSpam(ops, now, 1, 0)) = 2
  /\ \E i, j \in ReadOps(ops, now, 0) :
       /\ ~ops[i].success /\ ops[j].success
       /\ ops[i].actorId # Undefined /\ ops[j].actorId = Undefined
  /\ Len(detectRecipientSpam(ops, now, 0, 1)) = 1
  /\ detectRecipientSpam(ops, now, 0, 1)[1].count = 2
  /\ Len(detectActorSpam(ops, now, 0, 0)) = 1
  /\ detectActorSpam(ops, now, 0, 0)[1].count = 1

\* the group a record is for
FieldOf(pattern) == IF "email" \in DOMAIN pattern THEN "email" ELSE "actorId"

\* the statement of C29 for one window and one threshold, the groups being
\* the groups of the operations at the positions P
PatternBounds(P, W, m) ==
  LET out == detectRapidFirePatterns(ops, now, W, m)
      groupOf(pattern) == GroupOf(P, FieldOf(pattern), pattern[FieldOf(pattern)])
  IN \A k \in 1..Len(out) :
       LET group == groupOf(out[k])
       IN /\ out[k].firstTimestamp >= now - W
          /\ out[k].lastTimestamp >= now
          /\ out[k].count
               = Cardinality({i \in group :
                                ops[i].timestamp >= out[k].firstTimestamp})
          /\ (\A i \in group : ops[i].timestamp >= out[k].firstTimestamp)
               => out[k].count = Cardinality(group)
          /\ \A l \in 1..Len(out) :
               (/\ FieldOf(out[l]) = FieldOf(out[k])
                /\ out[l][FieldOf(out[l])] = out[k][FieldOf(out[k])]
                /\ out[l].firstTimestamp >= out[k].firstTimestamp)
                 => out[l].count <= out[k].count

\* C29 (as stated): every record has firstTimestamp >= now - timeWindowMs
\* and lastTimestamp >= now, its count is the number of operations of its
\* group from firstTimestamp on, so that the record anchored at the group's
\* earliest operation in the window reports the group's whole in-window
\* size, and counts do not increase with firstTimestamp within a group.
C29_CountsWholeWindow ==
  \A W \in Windows, m \in Limits : PatternBounds(WindowOps(ops, now, W), W, m)

\* C29 (amended): the same with the groups taken among the operations read,
\* the oldest MAX_SPAM_DETECTION_LIMIT operations of the window: the record
\* anchored at the earliest operation read of a group reports the number of
\* operations read of the group.
C29_CountsAmongRead ==
  \A W \in Windows, m \in Limits : PatternBounds(ReadOps(ops, now, W), W, m)

\* two operations of a recipient read at different times, with an older
\* operation outside the window: the record anchored at the earlier one
\* counts both, the record anchored at the later one counts one
C29_Witness ==
  \E W \in Windows :
    LET out == detectRapidFirePatterns(ops, now, W, 1)
    IN /\ Len(ops) > Cardinality(WindowOps(ops, now, W))
       /\ \E k, l \in 1..Len(out) :
            /\ FieldOf(out[k]) = "email" /\ FieldOf(out[l]) = "email"
            /\ out[k].email = out[l].email
            /\ out[k].firstTimestamp < out[l].firstTimestamp
            /\ out[k].firstTimestamp >= now - W
            /\ out[k].count = 2 /\ out[l].count = 1

(***************************************************************************)
(* Backfill of the namespace counter                                       *)
(***************************************************************************)
\* largest numItems of a page, scaled from 500 so that a store can exceed it
MaxBatch == 2
\* the batchSize of a call that gives none, scaled from 100
DefaultBatchSize == 1
\* complete runs of the backfill a caller makes
MaxPasses == 2

\* contactAggregate.clear(ctx, {namespace}): the entries of that one
\* namespace are dropped; the call site passes no namespace, so undefined
aggregateClear(agg, namespace) == {e \in agg : e.namespace # namespace}

\* the paginator's continueCursor after the last page
END_CURSOR == -1

\* a paginator whose page starts at the cursor's document
paginate_Inclusive(docs, cursor, numItems, fullPageHasMore) ==
  IF cursor = END_CURSOR
  THEN [page |-> <<>>, isDone |-> TRUE, continueCursor |-> END_CURSOR]
  ELSE LET rest == InCreationOrder({c \in docs : c._id >= cursor})
           page == Take(rest, numItems)
           hasMore == IF Len(rest) > numItems THEN TRUE
                      ELSE IF Len(page) < numItems THEN FALSE
                      ELSE fullPageHasMore
       IN [page |-> page, isDone |-> ~hasMore,
           continueCursor |-> IF hasMore /\ Len(page) > 0
                              THEN page[Len(page)]._id ELSE END_CURSOR]

\* paginator(ctx.db, schema).query("contacts").order("asc").paginate(opts):
\* the documents after the cursor in creation order.  A page that is full and
\* ends at the last document may or may not report more to come
\* (fullPageHasMore); the next page is then empty and done.
paginate(docs, cursor, numItems, fullPageHasMore) ==
  IF cursor = END_CURSOR
  THEN [page |-> <<>>, isDone |-> TRUE, continueCursor |-> END_CURSOR]
  ELSE LET rest == InCreationOrder({c \in docs : c._id > cursor})
           page == Take(rest, numItems)
           hasMore == IF Len(rest) > numItems THEN TRUE
                      ELSE IF Len(page) < numItems THEN FALSE
                      ELSE fullPageHasMore
       IN [page |-> page, isDone |-> ~hasMore,
           continueCursor |-> IF hasMore /\ Len(page) > 0
                              THEN page[Len(page)]._id ELSE END_CURSOR]

\* for (const contact of result.page) await aggregateInsert(ctx, contact)
RECURSIVE InsertPage(_, _, _)
InsertPage(agg, page, n) ==
  IF n = 0 THEN agg ELSE aggregateInsert(InsertPage(agg, page, n - 1), page[n])

\* a backfill that clears on every call without a cursor, asked to or not
backfillContactAggregate_AlwaysClears(docs, agg, args, fullPageHasMore) ==
  LET batchSize == Coalesce(args.batchSize, DefaultBatchSize)
      cleared == IF args.cursor = NoCursor
                 THEN aggregateClear(agg, Undefined) ELSE agg
      numItems == Min(Max(1, batchSize), MaxBatch)
      result == paginate(docs, args.cursor, numItems, fullPageHasMore)
  IN [aggregate |-> InsertPage(cleared, result.page, Len(result.page)),
      page |-> result.page,
      processed |-> Len(result.page),
      cursor |-> result.continueCursor,
      isDone |-> result.isDone]

\* args: [cursor, batchSize : optional number, clear : optional boolean];
\* the value holds the counter after the mutation, the page and the response
backfillContactAggregate(docs, agg, args, fullPageHasMore) ==
  LET batchSize == Coalesce(args.batchSize, DefaultBatchSize)
      cleared == IF Coalesce(args.clear, FALSE) /\ args.cursor = NoCursor
                 THEN aggregateClear(agg, Undefined) ELSE agg
      numItems == Min(Max(1, batchSize), MaxBatch)
      result == paginate(docs, args.cursor, numItems, fullPageHasMore)
  IN [aggregate |-> InsertPage(cleared, result.page, Len(result.page)),
      page |-> result.page,
      processed |-> Len(result.page),
      cursor |-> result.continueCursor,
      isDone |-> result.isDone]

\* batchSize absent, below the least page and above the largest
BatchSizes == {{}, {0}, {MaxBatch + 1}}

\* clear absent (as false) or true
Clears == {{}, {TRUE}}

\* one call of the mutation by the caller that drives the backfill, who
\* keeps the cursor returned and a tally of the run
Backfill(args, fullPageHasMore) ==
  LET r == backfillContactAggregate(contacts, aggregate, args, fullPageHasMore)
      first == args.cursor = NoCursor
      clears == Coalesce(args.clear, FALSE) /\ first
  IN /\ aggregate' = r.aggregate
     /\ backfill' =
          [cursor |-> r.cursor,
           isDone |-> r.isDone,
           calls |-> IF first THEN 1 ELSE backfill.calls + 1,
           processed |-> (IF first THEN 0 ELSE backfill.processed) + r.processed,
           lastProcessed |-> r.processed,
           visited |-> (IF first THEN <<>> ELSE backfill.visited)
                         \o [i \in 1..Len(r.page) |-> r.page[i]._id],
           clear |-> IF first THEN clears ELSE backfill.clear,
           complete |-> IF clears THEN r.isDone ELSE backfill.complete \/ r.isDone,
           passes |-> backfill.passes + (IF r.isDone THEN 1 ELSE 0)]
     /\ UNCHANGED <<contacts, nextId, ops, now, sends, calls, inflight>>

\* the first call of a run: no cursor
BackfillStartWith(batchSizes, clears, flags) ==
  /\ backfill.calls = 0 \/ backfill.isDone
  /\ backfill.passes < MaxPasses
  /\ \E batchSize \in batchSizes, clear \in clears, fullPageHasMore \in flags :
       Backfill([cursor |-> NoCursor, batchSize |-> batchSize, clear |-> clear],
                fullPageHasMore)

\* a later call of a run: the cursor returned by the call before
BackfillContinueWith(batchSizes, clears, flags) ==
  /\ backfill.calls > 0
  /\ ~backfill.isDone
  /\ \E batchSize \in batchSizes, clear \in clears, fullPageHasMore \in flags :
       Backfill([cursor |-> backfill.cursor, batchSize |-> batchSize, clear |-> clear],
                fullPageHasMore)

BackfillStart == BackfillStartWith(BatchSizes, Clears, BOOLEAN)
BackfillContinue == BackfillContinueWith(BatchSizes, Clears, BOOLEAN)

NextBackfill == BackfillStart \/ BackfillContinue

Contact(id, email, userGroup) ==
  [_id |-> id, email |-> email, source |-> "web", subscribed |-> TRUE,
   userGroup |-> userGroup]

\* Contact Stores the backfill is run on: empty, one contact, three contacts
\* of two partitions, and two contacts left after the deletion of a third
BackfillStores ==
  {{},
   {Contact(1, "a@x.com", "premium")},
   {Contact(1, "a@x.com", "premium"), Contact(2, "b@x.com", Undefined),
    Contact(3, "c@x.com", "premium")},
   {Contact(1, "a@x.com", "free"), Contact(3, "c@x.com", Undefined)}}

\* the counter entries of a store whose every write went through the counter
CounterOf(store) == {AggEntry(c) : c \in store}

\* the counters a backfill is run on: entries missing for contacts written
\* before the counter existed, and an entry left over for a contact or a
\* userGroup the store no longer has
DriftedCounters(store) ==
  LET leftOver == {[namespace |-> g, id |-> i] : g \in OptUserGroups, i \in 1..MaxIds}
                    \ CounterOf(store)
  IN {(CounterOf(store) \ missing) \cup stale :
        missing \in SUBSET CounterOf(store),
        stale \in {{}} \cup {{e} : e \in leftOver}}

InitBackfill ==
  /\ contacts \in BackfillStores
  /\ aggregate \in DriftedCounters(contacts)
  /\ nextId = MaxIds + 1
  /\ ops = <<>>
  /\ now = 0
  /\ sends = <<>>
  /\ backfill = NoBackfill
  /\ calls = <<>>
  /\ inflight = {}

SpecBackfill == InitBackfill /\ [][NextBackfill]_vars

\* the stores with the counter of an upgrade (empty) and a counter in step
InitBackfillLive ==
  /\ InitBackfill
  /\ aggregate \in {{}, CounterOf(contacts)}

\* the caller keeps calling until the run is done
SpecBackfillLive ==
  InitBackfillLive /\ [][NextBackfill]_vars /\ WF_vars(NextBackfill)

Cursors == {NoCursor, END_CURSOR} \cup (1..MaxIds)
BackfillArgs ==
  [cursor : Cursors, batchSize : {{}} \cup {{n} : n \in 0..(MaxBatch + 1)},
   clear : OptBooleans]

PartitionCounts(agg) ==
  [g \in OptUserGroups |-> aggregateCountByUserGroup(agg, g)]

\* C14: with the Contact Store unchanged, a page run a second time with the
\* same arguments leaves every partition count as the first run left it, and
\* once a run has completed every further call with clear:false, from any
\* cursor and with any batchSize, leaves every partition count unchanged.
C14_BackfillIdempotent ==
  \A args \in BackfillArgs, fullPageHasMore \in BOOLEAN :
    LET once == backfillContactAggregate(contacts, aggregate, args, fullPageHasMore)
        twice == backfillContactAggregate(contacts, once.aggregate, args,
                                          fullPageHasMore)
    IN /\ PartitionCounts(twice.aggregate) = PartitionCounts(once.aggregate)
       /\ twice.aggregate = once.aggregate
       /\ (backfill.complete /\ ~Coalesce(args.clear, FALSE)) =>
            /\ PartitionCounts(once.aggregate) = PartitionCounts(aggregate)
            /\ once.aggregate = aggregate

\* a second run with clear:false has completed after a first run over three
\* contacts of a counter that missed some of them
C14_Witness ==
  /\ backfill.passes = 2
  /\ backfill.isDone
  /\ ~backfill.clear
  /\ backfill.calls >= 2
  /\ Cardinality(contacts) = 3
  /\ CounterOf(contacts) \subseteq aggregate

\* the ids of the store in creation order
StoreIds ==
  LET docs == InCreationOrder(contacts)
  IN [i \in 1..Len(docs) |-> docs[i]._id]

\* C15 (safety part): in a run over an unchanged store each call processes
\* at most MaxBatch contacts, the contacts visited so far are the first ones
\* of the store in ascending order, each once, processed sums to their
\* number, a call that is not done returns the cursor of the last contact
\* visited and has visited at least one more, and a run is done after at most
\* N + 1 calls with every contact visited and processed = N.
C15_RunInvariant ==
  /\ backfill.lastProcessed <= MaxBatch
  /\ backfill.visited = Take(StoreIds, Len(backfill.visited))
  /\ backfill.processed = Len(backfill.visited)
  /\ backfill.calls <= Cardinality(contacts) + 1
  /\ backfill.isDone =>
       /\ backfill.visited = StoreIds
       /\ backfill.processed = Cardinality(contacts)
  /\ (backfill.calls > 0 /\ ~backfill.isDone) =>
       /\ Len(backfill.visited) >= backfill.calls
       /\ backfill.cursor = backfill.visited[Len(backfill.visited)]

\* C15: backfill is resumable and terminates: the run invariant holds and a
\* caller who keeps passing the returned cursor gets isDone = true.
C15_BackfillTerminates ==
  /\ []C15_RunInvariant
  /\ (~backfill.isDone) ~> backfill.isDone

\* a run over three contacts that took three calls, the last one an empty page
C15_Witness ==
  /\ backfill.isDone
  /\ backfill.calls = 3
  /\ backfill.processed = 3
  /\ backfill.lastProcessed = 0
  /\ backfill.visited = <<1, 2, 3>>

\* C16: after a run that began with clear:true and no cursor and was driven
\* to isDone, every partition count is the number of live contacts of the
\* partition and countContacts({}) is the number of live contacts, whatever
\* the counter held before.
C16_ClearRepairs ==
  (backfill.isDone /\ backfill.clear) =>
    /\ \A g \in OptUserGroups : aggregateCountByUserGroup(aggregate, g) = LiveInGroup(g)
    /\ countContacts(contacts, aggregate, NoFilter) = Cardinality(contacts)

(***************************************************************************)
(* The backfill with writers: storeContact and removeContact commit        *)
(* between the calls of a run started with clear:true and driven with the  *)
(* default batchSize                                                       *)
(***************************************************************************)
\* the store the run starts on: a contact of a userGroup and one of none
WriterStore ==
  {Contact(1, "a@x.com", "premium"), Contact(2, "b@x.com", Undefined)}

InitBackfillWriters ==
  /\ contacts = WriterStore
  /\ aggregate \in DriftedCounters(contacts)
  /\ nextId = 3
  /\ ops = <<>>
  /\ now = 0
  /\ sends = <<>>
  /\ backfill = NoBackfill
  /\ calls = <<>>
  /\ inflight = {}

\* an insert or a change of userGroup
WriterStoreContact ==
  \E email \in ContactEmails, userGroup \in OptUserGroups :
    storeContact(email, "web", {}, userGroup) /\ UNCHANGED inflight

NextBackfillWriters ==
  \/ BackfillStartWith({{}}, {{TRUE}}, BOOLEAN)
  \/ BackfillContinueWith({{}}, {{TRUE}}, BOOLEAN)
  \/ WriterStoreContact
  \/ RemoveContact

SpecBackfillWriters == InitBackfillWriters /\ [][NextBackfillWriters]_vars

MaxCalls == 2

Returned(action, email, response) ==
  /\ Len(calls) < MaxCalls
  /\ calls' = Append(calls, [action |-> action, email |-> email,
                             response |-> response])
  /\ UNCHANGED sends

SendTransactionalTo(emails, outcomes) ==
  \E email \in emails, response \in outcomes :
    /\ sendTransactional([email |-> email], response)
    /\ Returned("sendTransactional", email, response)

SendEventTo(emails, outcomes) ==
  \E email \in emails, response \in outcomes :
    /\ sendEvent([email |-> email], response)
    /\ Returned("sendEvent", email, response)

TriggerLoopTo(emails, outcomes) ==
  \E email \in emails, response \in outcomes :
    /\ triggerLoop([email |-> email], response)
    /\ Returned("triggerLoop", email, response)

SendTransactional == SendTransactionalTo(Emails, Outcomes)
SendEvent == SendEventTo(Emails, Outcomes)
TriggerLoop == TriggerLoopTo(Emails, Outcomes)

NextSendLog == SendTransactional \/ SendEvent \/ TriggerLoop \/ Tick

SpecSendLog == Init /\ [][NextSendLog]_vars

\* the invocation that ends in this step
Ends(call) == calls' = Append(calls, call)

SendCalls ==
  [action : {"sendTransactional", "sendEvent", "triggerLoop"}, email : Emails,
   response : Outcomes]

\* C17: an invocation of sendTransactional, sendEvent or triggerLoop whose
\* upstream call returns, with success or with an error status, appends
\* exactly one EmailOperation, for its recipient and with the success of the
\* call, so a successful send adds one to the recipient's count.
C17_OneEntryPerAttempt ==
  [][\A call \in SendCalls :
       (Ends(call) /\ call.response \in Responses) =>
         /\ Len(ops') = Len(ops) + 1
         /\ SubSeq(ops', 1, Len(ops)) = ops
         /\ ops'[Len(ops')].email = call.email
         /\ ops'[Len(ops')].success = (call.response = "ok")
    ]_vars

\* C18: an invocation of sendTransactional, sendEvent or triggerLoop whose
\* upstream call fails, by an error status or by a thrown transport error,
\* appends an EmailOperation with success:false for its recipient; the log
\* is never left unchanged by a failed invocation.
C18_FailureIsLogged ==
  [][\A call \in SendCalls :
       (Ends(call) /\ call.response \in {"error", "thrown"}) =>
         /\ Len(ops') > Len(ops)
         /\ \E i \in (Len(ops) + 1)..Len(ops') :
              ops'[i].email = call.email /\ ~ops'[i].success
    ]_vars

(***************************************************************************)
(* The contact actions.  An action calls Loops and then runs its mutation  *)
(* as a transaction of its own, so mutations of concurrent invocations     *)
(* interleave; an invocation whose upstream call fails throws and writes   *)
(* nothing.                                                                *)
(***************************************************************************)
\* the callers that may have an action running at the same time
Callers == {"c1", "c2"}

Idle(caller) == \A p \in inflight : p.caller # caller

\* the mutation an invocation is about to run; existed tells whether the
\* Contact Store held the email when the upstream call was made, and rest
\* holds the contacts a batch has still to add
Pending(caller, mutation, args, rest) ==
  [caller |-> caller, mutation |-> mutation, args |-> args, rest |-> rest,
   existed |-> ByEmail(args.email) # {}]

\* the contact an action is called with
ContactArgs ==
  {[email |-> email, source |-> Undefined, subscribed |-> {}, userGroup |-> g] :
     email \in Emails, g \in {"premium", Undefined}}

\* POST /contacts/create returns ok, 409, or another error, or fetch throws;
\* after a 409, PUT /contacts/update does one of the last three but 409
CreateResponses == {"ok", "conflict", "error", "thrown"}

\* addContact: storeContact follows a create that succeeded and a 409
\* followed by an update that succeeded
addContact(caller, contact, create, update) ==
  /\ Idle(caller)
  /\ IF create = "ok" \/ (create = "conflict" /\ update = "ok")
     THEN inflight' = inflight \cup {Pending(caller, "storeContact", contact, <<>>)}
     ELSE UNCHANGED inflight
  /\ UNCHANGED <<contacts, nextId, aggregate, ops, now, sends, backfill, calls>>

\* updateContact: the same fields are stored after PUT /contacts/update
updateContact(caller, args, response) ==
  /\ Idle(caller)
  /\ IF response = "ok"
     THEN inflight' = inflight \cup {Pending(caller, "storeContact", args, <<>>)}
     ELSE UNCHANGED inflight
  /\ UNCHANGED <<contacts, nextId, aggregate, ops, now, sends, backfill, calls>>

\* unsubscribeContact / resubscribeContact: storeContact({email, subscribed})
setSubscribed(caller, email, subscribed, response) ==
  /\ Idle(caller)
  /\ IF response = "ok"
     THEN inflight' = inflight \cup
            {Pending(caller, "storeContact",
                     [email |-> email, source |-> Undefined,
                      subscribed |-> {subscribed}, userGroup |-> Undefined], <<>>)}
     ELSE UNCHANGED inflight
  /\ UNCHANGED <<contacts, nextId, aggregate, ops, now, sends, backfill, calls>>

unsubscribeContact(caller, email, response) ==
  setSubscribed(caller, email, FALSE, response)

resubscribeContact(caller, email, response) ==
  setSubscribed(caller, email, TRUE, response)

\* a deleteContact that runs removeContact whatever the upstream call answers
deleteContact_IgnoresStatus(caller, email, response) ==
  /\ Idle(caller)
  /\ inflight' = inflight \cup
       {Pending(caller, "removeContact", [email |-> email], <<>>)}
  /\ UNCHANGED <<contacts, nextId, aggregate, ops, now, sends, backfill, calls>>

\* deleteContact: removeContact follows POST /contacts/delete
deleteContact(caller, email, response) ==
  /\ Idle(caller)
  /\ IF response = "ok"
     THEN inflight' = inflight \cup
            {Pending(caller, "removeContact", [email |-> email], <<>>)}
     ELSE UNCHANGED inflight
  /\ UNCHANGED <<contacts, nextId, aggregate, ops, now, sends, backfill, calls>>

\* batchCreateContacts: addContact for one contact after the other; a
\* contact whose addContact throws is counted as failed and skipped, so
\* batch holds the contacts whose upstream call succeeds
batchCreateContacts(caller, batch) ==
  /\ Idle(caller)
  /\ inflight' = inflight \cup
       {Pending(caller, "storeContact", Head(batch), Tail(batch))}
  /\ UNCHANGED <<contacts, nextId, aggregate, ops, now, sends, backfill, calls>>

\* the mutation of an invocation commits; a batch goes on to its next contact
runMutation(caller) ==
  \E p \in inflight :
    /\ p.caller = caller
    /\ IF p.mutation = "storeContact"
       THEN storeContact(p.args.email, p.args.source, p.args.subscribed,
                         p.args.userGroup)
       ELSE removeContact(p.args.email)
    /\ inflight' = (inflight \ {p}) \cup
         (IF p.rest = <<>> THEN {}
          ELSE {[caller |-> caller, mutation |-> "storeContact",
                 args |-> Head(p.rest), rest |-> Tail(p.rest),
                 existed |-> \E c \in contacts' : c.email = Head(p.rest).email]})

\* batches of two contacts: two emails, and one email twice
Batches ==
  {<<[email |-> "a@x.com", source |-> Undefined, subscribed |-> {},
      userGroup |-> "premium"],
     [email |-> e, source |-> Undefined, subscribed |-> {},
      userGroup |-> Undefined]>> : e \in Emails}

AddContact ==
  \E caller \in Callers, contact \in ContactArgs, create \in CreateResponses,
     update \in Outcomes :
       addContact(caller, contact, create, update)

UpdateContact ==
  \E caller \in Callers, args \in ContactArgs, response \in Outcomes :
    updateContact(caller, args, response)

UnsubscribeContact ==
  \E caller \in Callers, email \in Emails, response \in Outcomes :
    unsubscribeContact(caller, email, response)

ResubscribeContact ==
  \E caller \in Callers, email \in Emails, response \in Outcomes :
    resubscribeContact(caller, email, response)

DeleteContact ==
  \E caller \in Callers, email \in Emails, response \in Outcomes :
    deleteContact(caller, email, response)

BatchCreateContacts ==
  \E caller \in Callers, batch \in Batches : batchCreateContacts(caller, batch)

RunMutation == \E caller \in Callers : runMutation(caller)

NextContactActions ==
  \/ AddContact
  \/ UpdateContact
  \/ UnsubscribeContact
  \/ ResubscribeContact
  \/ DeleteContact
  \/ BatchCreateContacts
  \/ RunMutation

SpecContactActions == Init /\ [][NextContactActions]_vars

\* C20: in every state reached by any interleaving of addContact,
\* updateContact, unsubscribeContact, resubscribeContact,
\* batchCreateContacts and deleteContact, each running its storeContact or
\* removeContact as one transaction, the Contact Store holds at most one
\* contact per email.
C20_OneContactPerEmail ==
  \A email \in Emails : Cardinality(ByEmail(email)) <= 1

\* two invocations were in flight for an email the store did not hold; the
\* mutation of the first has inserted the contact and the second is about to
\* run its own
C20_Witness ==
  \E email \in Emails, p \in inflight :
    /\ p.mutation = "storeContact"
    /\ p.args.email = email
    /\ ~p.existed
    /\ Cardinality(ByEmail(email)) = 1
    /\ nextId = 2

\* the step in which the mutation of the pending invocation p commits
Commits(p) == p \in inflight /\ inflight' = inflight \ {p}

\* C21: a deleteContact whose upstream call fails (error status or thrown
\* error) leaves the Contact Store and the Namespace Counter as they were and
\* runs no mutation; one whose upstream call succeeds runs removeContact,
\* after which no contact has the email, the partition of the contact
\* removed counts one less and every other contact and partition is as
\* before; with no contact of the email the store and the counter are
\* unchanged; and a contact leaves the store only in such a removeContact.
C21_DeleteIffUpstreamOk ==
  [][/\ \A caller \in Callers, email \in Emails :
          /\ \A response \in Outcomes \ {"ok"} :
               deleteContact(caller, email, response)
                 => UNCHANGED <<contacts, aggregate, inflight>>
          /\ deleteContact(caller, email, "ok")
               => \E p \in inflight' \ inflight :
                    /\ p.caller = caller
                    /\ p.mutation = "removeContact"
                    /\ p.args.email = email
     /\ \A p \in inflight :
          (p.mutation = "removeContact" /\ Commits(p)) =>
            LET removed == ByEmail(p.args.email)
            IN /\ contacts' = contacts \ removed
               /\ \A c \in contacts' : c.email # p.args.email
               /\ \A g \in OptUserGroups :
                    aggregateCountByUserGroup(aggregate', g)
                      = aggregateCountByUserGroup(aggregate, g)
                          - Cardinality({c \in removed : c.userGroup = g})
               /\ aggregateCountTotal(aggregate')
                    = aggregateCountTotal(aggregate) - Cardinality(removed)
               /\ removed = {} => UNCHANGED <<contacts, aggregate>>
     /\ (\E c \in contacts : \A d \in contacts' : d._id # c._id)
          => \E p \in inflight : p.mutation = "removeContact" /\ Commits(p)
    ]_vars

\* a contact of a user group was added and then deleted: the store and the
\* counter are empty again, and a second delete of the email is in flight
C21_Witness ==
  /\ nextId = 2
  /\ contacts = {}
  /\ aggregate = {}
  /\ \E p \in inflight : p.mutation = "removeContact" /\ ~p.existed

\* C26: when the storeContact of an unsubscribeContact or resubscribeContact
\* commits on an existing contact, the contact keeps its userGroup and its
\* source and gets the subscribed flag of the action, the Namespace Counter
\* is unchanged, and countContacts by userGroup and by source count what
\* they counted before.
C26_SubscriptionKeepsPartition ==
  [][\A p \in inflight :
       (/\ Commits(p)
        /\ p.mutation = "storeContact"
        /\ p.args.subscribed # {}
        /\ ByEmail(p.args.email) # {})
         => /\ \A c \in ByEmail(p.args.email) :
                 \E d \in contacts' :
                   /\ d._id = c._id
                   /\ d.userGroup = c.userGroup
                   /\ d.source = c.source
                   /\ d.subscribed \in p.args.subscribed
            /\ aggregate' = aggregate
            /\ \A g \in UserGroups :
                 countContacts(contacts', aggregate', GroupFilter(g))
                   = countContacts(contacts, aggregate, GroupFilter(g))
            /\ \A src \in Sources :
                 LET f == [userGroup |-> Undefined, source |-> src, subscribed |-> {}]
                 IN countContacts(contacts', aggregate', f)
                      = countContacts(contacts, aggregate, f)
    ]_vars

(***************************************************************************)
(* Every writer of the component next to the Operation Log: one send of    *)
(* each kind, one caller adding and deleting a contact, and the backfill   *)
(***************************************************************************)
LogEmails == {"a@x.com"}

NextLog ==
  \/ SendTransactionalTo(LogEmails, {"error"})
  \/ SendEventTo(LogEmails, {"thrown"})
  \/ TriggerLoopTo(LogEmails, {"ok"})
  \/ Tick
  \/ \E contact \in {c \in ContactArgs : c.email \in LogEmails /\ c.userGroup = "premium"} :
       addContact("c1", contact, "ok", "ok")
  \/ \E email \in LogEmails : deleteContact("c1", email, "ok")
  \/ runMutation("c1")
  \/ BackfillStartWith({{}}, {{TRUE}}, {TRUE})
  \/ BackfillContinueWith({{}}, {{TRUE}}, {TRUE})

SpecLog == Init /\ [][NextLog]_vars

\* C19: whatever runs (a send action, a contact action or its mutation, the
\* backfill, the clock), the operations written stay as they were written
\* and in place, the log never gets shorter, it grows only in a step of a
\* send action, which is the only caller of logEmailOperation, and every
\* operation added carries the clock of the step as its timestamp.
C19_AppendOnly ==
  [][/\ Len(ops') >= Len(ops)
     /\ SubSeq(ops', 1, Len(ops)) = ops
     /\ \A i \in (Len(ops) + 1)..Len(ops') : ops'[i].timestamp = now
     /\ ops' # ops => Len(calls') = Len(calls) + 1
    ]_vars

\* an operation written before a contact was added and deleted, the store
\* backfilled and the clock advanced, with a later operation after it
C19_Witness ==
  /\ Len(ops) >= 2
  /\ ops[1].timestamp < ops[Len(ops)].timestamp
  /\ backfill.isDone /\ backfill.calls = 2
  /\ contacts = {}
  /\ nextId > 1

(***************************************************************************)
(* Check-then-send by concurrent callers: a host action asks                *)
(* checkRecipientRateLimit in one query and, when allowed, runs the send   *)
(* action; queries and actions of other callers run in between             *)
(***************************************************************************)
\* the policy of the host, scaled from timeWindowMs: 60000, maxEmails: 10
PolicyWindowMs == 1
PolicyMaxEmails == 1

\* the caller has been allowed and has not sent yet
Allowed(caller) ==
  \E i \in 1..Len(sends) : sends[i].caller = caller /\ ~sends[i].sent

\* the check of the pattern: a blocked caller throws and sends nothing
CheckRecipient(caller, email) ==
  /\ ~Allowed(caller)
  /\ Len(sends) < MaxOps
  /\ checkRecipientRateLimit(ops, now, email, PolicyWindowMs, PolicyMaxEmails).allowed
  /\ sends' = Append(sends, [caller |-> caller, email |-> email,
                             timestamp |-> now, sent |-> FALSE,
                             success |-> FALSE])
  /\ UNCHANGED <<contacts, nextId, aggregate, ops, now, backfill, calls, inflight>>

\* the send of the pattern, by a caller that was allowed
SendChecked(caller, response) ==
  \E i \in 1..Len(sends) :
    /\ sends[i].caller = caller
    /\ ~sends[i].sent
    /\ sendTransactional([email |-> sends[i].email], response)
    /\ sends' = [sends EXCEPT ![i].sent = TRUE,
                              ![i].success = (response = "ok")]
    /\ UNCHANGED calls

CheckThenSendCheck ==
  \E caller \in Callers, email \in Emails : CheckRecipient(caller, email)

CheckThenSendSend ==
  \E caller \in Callers, response \in Responses : SendChecked(caller, response)

NextCheckThenSend == CheckThenSendCheck \/ CheckThenSendSend \/ Tick

SpecCheckThenSend == Init /\ [][NextCheckThenSend]_vars

\* C28: with every send to a recipient issued after a
\* checkRecipientRateLimit(email, W, M) that returned allowed = true, by
\* callers that run side by side, the successful operations logged for a
\* recipient with timestamp in any interval [t, t + W] are at most M.
C28_CheckThenSendEnforces ==
  \A email \in Emails, t \in 0..MaxTime :
    Cardinality({i \in 1..Len(ops) :
                   /\ ops[i].email = email
                   /\ ops[i].success
                   /\ ops[i].timestamp >= t
                   /\ ops[i].timestamp <= t + PolicyWindowMs})
      <= PolicyMaxEmails

(***************************************************************************)
(* Error sanitization: what the caller of an action gets when Loops        *)
(* answers with an error status                                            *)
(***************************************************************************)
\* an error whose fallback message carries the response body
sanitizeLoopsError_EchoesBody(status, errorText) ==
  IF status = 401 \/ status = 403
  THEN "Authentication failed. Please check your API key."
  ELSE IF status = 404 THEN "Resource not found."
  ELSE IF status = 429 THEN "Rate limit exceeded. Please try again later."
  ELSE IF status >= 500 THEN "Loops service error. Please try again later."
  ELSE "Loops API error (" \o ToString(status) \o "): " \o errorText

\* the message of the Error returned
sanitizeLoopsError(status, errorText) ==
  IF status = 401 \/ status = 403
  THEN "Authentication failed. Please check your API key."
  ELSE IF status = 404 THEN "Resource not found."
  ELSE IF status = 429 THEN "Rate limit exceeded. Please try again later."
  ELSE IF status >= 500 THEN "Loops service error. Please try again later."
  ELSE "Loops API error (" \o ToString(status) \o "). Please try again."

\* statuses with !response.ok, and response bodies that tell of the upstream
ErrorStatuses == {400, 401, 403, 404, 409, 429, 500, 503}
ErrorTexts == {"{\"message\":\"Invalid API key\"}",
               "{\"message\":\"Contact a@x.com not found in team 42\"}"}

\* deleteContact with an error status: the handler reads the body, throws
\* sanitizeLoopsError(response.status, errorText) and writes nothing
DeleteContactRejected ==
  \E email \in Emails, status \in ErrorStatuses, errorText \in ErrorTexts :
    /\ Len(calls) < MaxCalls
    /\ calls' = Append(calls, [action |-> "deleteContact", email |-> email,
                               status |-> status, errorText |-> errorText,
                               error |-> sanitizeLoopsError(status, errorText)])
    /\ UNCHANGED <<contacts, nextId, aggregate, ops, now, sends, backfill, inflight>>

NextErrors == DeleteContactRejected

SpecErrors == Init /\ [][NextErrors]_vars

AuthenticationError == "Authentication failed. Please check your API key."
NotFoundError == "Resource not found."
RateLimitError == "Rate limit exceeded. Please try again later."
ServiceError == "Loops service error. Please try again later."

\* C22: the errors of two upstream failures with the same status are the
\* same message whatever the response bodies; 401 and 403 give the
\* authentication error, 404 not-found, 429 rate-limited, every status from
\* 500 the service error; the four messages differ from each other, and no
\* other status gives one of them.
C22_ErrorDependsOnStatusOnly ==
  /\ \A i, j \in 1..Len(calls) :
       calls[i].status = calls[j].status => calls[i].error = calls[j].error
  /\ \A i \in 1..Len(calls) :
       LET status == calls[i].status
           error == calls[i].error
       IN /\ status \in {401, 403} <=> error = AuthenticationError
          /\ status = 404 <=> error = NotFoundError
          /\ status = 429 <=> error = RateLimitError
          /\ status >= 500 <=> error = ServiceError
  /\ Cardinality({AuthenticationError, NotFoundError, RateLimitError,
                  ServiceError}) = 4

\* two deletes were rejected with the same status outside the four
\* categories and with different bodies, and threw the same error
C22_Witness ==
  /\ Len(calls) = 2
  /\ calls[1].status = 400 /\ calls[2].status = 400
  /\ calls[1].errorText # calls[2].errorText
  /\ calls[1].error = calls[2].error

(***************************************************************************)
(* The whole component                                                     *)
(***************************************************************************)
Next ==
  NextContacts \/ NextRate \/ NextSend \/ NextStats \/ NextTruncation \/ NextPatterns
    \/ NextBackfill \/ NextBackfillWriters
    \/ NextSendLog \/ NextContactActions \/ NextLog \/ NextCheckThenSend
    \/ NextErrors

Spec == Init /\ [][Next]_vars

====
